---- MODULE Spec2Model ----
(***************************************************************************)
(* State-machine model of fuo_ytmusic.service.YtmusicService: the shared   *)
(* TTL cache (CACHE), the cached operations song_info and stream_url, the  *)
(* stream-URL resolution _get_stream_url with its probe and one retry, the *)
(* lazily fetched player script and cipher (_get_cipher), setup(), and the *)
(* provider's video_get_media on top of them.                              *)
(*                                                                         *)
(* Five specifications share the actions:                                  *)
(*   Spec       overlapping calls of two threads, the clock standing still *)
(*   SeqSpec    calls one after another, time passing between them         *)
(*   LoginSpec  calls one after another with setup() called again between  *)
(*   CacheSpec  a playlist longer than the cache, played by one thread     *)
(*   MediaSpec  video_get_media calls one after another                    *)
(*                                                                         *)
(* Python strings that the code slices, splits or concatenates are         *)
(* sequences of one-character strings.  An Optional value is None == <<>>  *)
(* or Some(x) == <<x>>.                                                    *)
(***************************************************************************)
EXTENDS Integers, Sequences, FiniteSets, TLC

\* ------------------------------------------------------------------ bounds

\* Worker threads of the host that may call into the singleton service.
Threads == {"t1", "t2"}
\* Number of service calls started over a run.
MaxCalls == 2
\* The clock advances TickStep seconds at a time, at most MaxTicks times.
TickStep == 400
MaxTicks == 2
\* The server rotates its signature timestamp through 1..MaxTs.
MaxTs == 2
\* setup() is called again (the user logs in) at most MaxSetups times.
MaxSetups == 1

\* A long playlist: track i has the id ToString(i).  Tracks 2..Prefill are
\* played through once, in order and without a pause; before and after
\* that stretch the listener may pause and may return to track 1, at most
\* MaxRepeats times.
MaxTracks == 102
Prefill == 99
MaxRepeats == 2

\* ------------------------------------------------------- program constants

\* CACHE = TTLCache(maxsize=100, ttl=timedelta(minutes=10).seconds)
maxsize == 100
ttl == 600

\* ------------------------------------------------------------------ strings

None == <<>>
Some(x) == <<x>>

\* str.find(sub) >= 0
Contains(s, sub) ==
    \E i \in 1..(Len(s) - Len(sub) + 1) : SubSeq(s, i, i + Len(sub) - 1) = sub

\* s[n:]
DropPrefix(s, n) == SubSeq(s, n + 1, Len(s))

\* str.split(sep) for a one-character separator
RECURSIVE SplitAt(_, _, _, _)
SplitAt(s, sep, i, cur) ==
    IF i > Len(s) THEN <<cur>>
    ELSE IF s[i] = sep THEN <<cur>> \o SplitAt(s, sep, i + 1, <<>>)
    ELSE SplitAt(s, sep, i + 1, Append(cur, s[i]))

split(s, sep) == SplitAt(s, sep, 1, <<>>)

\* The percent escapes that occur in the modelled blobs.
Escapes == { <<"2", "6">>, <<"3", "D">>, <<"2", "5">> }
Unescape(h) == IF h = <<"2", "6">> THEN "&"
               ELSE IF h = <<"3", "D">> THEN "="
               ELSE "%"

\* urllib.parse.unquote: %XX becomes the character; anything else is kept
RECURSIVE unquote(_)
unquote(s) ==
    IF s = <<>> THEN <<>>
    ELSE IF s[1] = "%" /\ Len(s) >= 3 /\ SubSeq(s, 2, 3) \in Escapes
         THEN <<Unescape(SubSeq(s, 2, 3))>> \o unquote(DropPrefix(s, 3))
         ELSE <<s[1]>> \o unquote(DropPrefix(s, 1))

\* ------------------------------------------------------ signatureCipher blob

\* for key in res: if sig.find(key + "=") >= 0: res[key] = unquote(sig[len(key + "="):])
ParseKey(old, sig, key) ==
    IF Contains(sig, key \o <<"=">>) THEN unquote(DropPrefix(sig, Len(key) + 1))
    ELSE old

RECURSIVE ParsePairs(_, _, _)
ParsePairs(sig_ex, i, res) ==
    IF i > Len(sig_ex) THEN res
    ELSE ParsePairs(sig_ex, i + 1,
                    [s   |-> ParseKey(res.s, sig_ex[i], <<"s">>),
                     url |-> ParseKey(res.url, sig_ex[i], <<"u", "r", "l">>)])

\* sig_ex = sig_ch.split('&'); res = {'s': '', 'url': ''}; the two loops
ParseCipher(sig_ch) == ParsePairs(split(sig_ch, "&"), 1, [s |-> <<>>, url |-> <<>>])

\* ------------------------------------------------------------ pytube Cipher

\* Player scripts the server may serve; the shape of jsBad is not recognised.
Scripts == {"jsA", "jsB", "jsBad"}

\* Cipher(js=...) succeeds exactly when the transform plan is found in the script.
Buildable(js) == js \in {"jsA", "jsB"}

\* The transform plan Cipher(js=...) extracts from a script.
TransformPlan(js) ==
    IF js = "jsA" THEN << [name |-> "reverse", arg |-> 0] >>
    ELSE << [name |-> "swap", arg |-> 1], [name |-> "splice", arg |-> 1] >>

\* arr[::-1]
reverse(arr) == [i \in 1..Len(arr) |-> arr[Len(arr) + 1 - i]]
\* arr[b:]
splice(arr, b) == DropPrefix(arr, b)
\* r = b % len(arr); [arr[r]] + arr[1:r] + [arr[0]] + arr[r + 1:]
swap(arr, b) ==
    LET r == b % Len(arr)
    IN  <<arr[r + 1]>> \o SubSeq(arr, 2, r) \o <<arr[1]>> \o DropPrefix(arr, r + 1)

\* Cipher.get_signature: the plan applied in order; swap on an empty
\* signature divides by zero and raises.
RECURSIVE ApplyPlan(_, _, _)
ApplyPlan(plan, i, sig) ==
    IF i > Len(plan) THEN [ok |-> TRUE, val |-> sig]
    ELSE IF plan[i].name = "reverse" THEN ApplyPlan(plan, i + 1, reverse(sig))
    ELSE IF plan[i].name = "splice" THEN ApplyPlan(plan, i + 1, splice(sig, plan[i].arg))
    ELSE IF Len(sig) = 0 THEN [ok |-> FALSE, val |-> <<>>]
    ELSE ApplyPlan(plan, i + 1, swap(sig, plan[i].arg))

get_signature(cipher, ciphered_signature) ==
    ApplyPlan(TransformPlan(cipher), 1, ciphered_signature)

\* ------------------------------------------------------------ remote service

Videos == {"v1", "v2"}

Digit(n) == <<"0", "1", "2", "3", "4", "5", "6", "7", "8", "9">>[n + 1]

\* What YTMusic.get_song(video_id, signature_timestamp) answers: the
\* streamingData.adaptiveFormats of the track.  The ciphered signatures are
\* issued for the timestamp the request carried.
Formats(video_id, ts) ==
    IF video_id = "v1" THEN
      << [itag |-> 251, url |-> Some(<<"p">>), signatureCipher |-> None],
         [itag |-> 250, url |-> None,
          signatureCipher |-> Some(<<"s", "=", "a", Digit(ts), "&", "u", "r", "l", "=", "u">>)],
         [itag |-> 140, url |-> Some(<<>>), signatureCipher |-> None],
         [itag |-> 139, url |-> None,
          signatureCipher |-> Some(<<"u", "r", "l", "=", "u">>)] >>
    ELSE
      << [itag |-> 250, url |-> None,
          signatureCipher |-> Some(<<"u", "r", "l", "=", "w", "&", "s", "=", "b", Digit(ts)>>)],
         [itag |-> 251, url |-> None,
          signatureCipher |-> Some(<<"s", "=", "c", "d", "&", "c", "s", "=", "q", "&",
                                     "u", "r", "l", "=", "w", "%", "3", "D", "x">>)] >>

\* The format codes callers ask for; 999 is offered by no track.
FormatCodes(video_id) == IF video_id = "v1" THEN {251, 250, 140, 139, 999} ELSE {250, 251}

\* SongInfo(**self._api.get_song(video_id, self._signature_timestamp))
get_song(video_id, ts) == [video_id |-> video_id, ts |-> ts]
adaptiveFormats(info) == Formats(info.video_id, info.ts)

\* extract.js_url(embed_html): the player script the track's embed page names
js_url_of(video_id) == IF video_id = "v1" THEN "/a/base.js" ELSE "/b/base.js"

\* The texts the server may answer for a player-script URL.
ScriptsAt(js_url) == IF js_url = "/a/base.js" THEN {"jsA", "jsBad"} ELSE {"jsB"}

\* The (video_id, format_code) pairs callers ask stream_url for.
UrlKeys == UNION { { <<v, c>> : c \in FormatCodes(v) } : v \in Videos }

\* Status codes of the HEAD probe.
Statuses == {200, 403, 404}

\* -------------------------------------------------------------------- state

VARIABLES
    CACHE,                 \* the TTLCache: entries [key, value, expires, linked], least recently used first
    _js,                   \* self._js: the cached player script text, "" before the first fetch
    _cipher,               \* self._cipher: "None", or the script the Cipher object was built from
    _signature_timestamp,  \* self._signature_timestamp
    _session,              \* self._session: which requests.Session object, counted from the first
    _api,                  \* self._api: which YTMusic client object, counted from the first
    now,                   \* the TTLCache timer (seconds)
    ticks,                 \* how often the clock has advanced
    serverTs,              \* the signature timestamp the server currently issues
    calls,                 \* service calls started so far
    lastPut,               \* history: per track, when and what song_info last stored
    totals,                \* history: script texts stored in _js, Cipher constructions and completed setup() calls
    lastUrl,               \* history: per track and format code, when, what and under which
                           \* timestamp and session stream_url last stored
    uses,                  \* history: the keys looked up or stored in CACHE, in order
    th                     \* per thread: position in the call, its locals, and the call's history

vars == << CACHE, _js, _cipher, _signature_timestamp, _session, _api, now, ticks, serverTs,
          calls, lastPut, totals, lastUrl, uses, th >>

NoInfo == [video_id |-> "", ts |-> 0]
NoFormat == [itag |-> 0, url |-> None, signatureCipher |-> None]
NoPut == [at |-> -1, info |-> NoInfo]
NoUrlPut == [at |-> -1, value |-> None, ts |-> 0, session |-> 0]

\* A thread outside any call.
Idle ==
    [ pc |-> "idle", op |-> "", video_id |-> "", format_code |-> 0,
      info |-> NoInfo, f |-> NoFormat, retry |-> FALSE,
      res |-> [s |-> <<>>, url |-> <<>>], js_url |-> "", js |-> "",
      ret |-> None, exc |-> "",
      at |-> 0,             \* the time TTLCache.__setitem__ read from the timer
      \* history of the call in progress
      js0 |-> "",           \* self._js when the call started
      hit |-> FALSE,        \* stream_url was answered from CACHE
      siDone |-> FALSE,     \* the song_info wrapper has returned
      siAt |-> 0,           \* the time song_info looked its key up
      siPrev |-> NoPut,     \* lastPut of the key at that time
      \* the provider's video_get_media around the call in progress
      vgm |-> "no",         \* "no", or how far it is: "info", "video", "audio", "decided", "raised"
      codes |-> << 0, 0 >>, \* format_code, audio_code
      url |-> None,         \* what stream_url returned for format_code
      audio_url |-> None,   \* what stream_url returned for audio_code
      resolved |-> 0,       \* stream_url calls it has made that returned
      media |-> None,       \* its result: None, or the manifest's two URLs
      suAt |-> 0,           \* the time stream_url looked its key up
      suPrev |-> NoUrlPut,  \* lastUrl of the arguments at that time
      get_songs |-> 0,      \* get_song requests
      getTs |-> 0,          \* the timestamp the last get_song request carried
      attempts |-> 0,       \* entries into _get_stream_url
      embeds |-> 0,         \* embed-page requests
      scripts |-> 0,        \* player-script requests
      builds |-> 0,         \* Cipher(js=...) constructions
      decodes |-> 0,        \* get_signature calls
      probes |-> 0,         \* HEAD requests
      getsAtProbe |-> 0,    \* get_song requests made before the HEAD request
      status |-> 0,         \* status of the HEAD request
      refreshes |-> 0,      \* get_signatureTimestamp requests
      newTs |-> 0,          \* the timestamp the refresh stored
      urls |-> <<>> ]       \* the URL each pass of _get_stream_url built

\* ------------------------------------------------------------------ TTLCache

song_info_key(video_id) == <<"song_info", video_id>>

\* Mutant: the format code is left out of the key.
stream_url_key_without_code(video_id, format_code) == <<"stream_url", video_id>>

stream_url_key(video_id, format_code) == <<"stream_url", video_id, format_code>>

HasKey(c, k) == \E i \in 1..Len(c) : c[i].key = k
IndexOf(c, k) == CHOOSE i \in 1..Len(c) : c[i].key = k
Without(c, k) == SelectSeq(c, LAMBDA e : e.key # k)

\* __setitem__ of another thread has put the key's link into the links but
\* not yet set its expires nor linked it into the expiry list.
Unlinked(c, k) == HasKey(c, k) /\ ~c[IndexOf(c, k)].linked

\* TTLCache.__getitem__ finds a link that has not expired: timer() < link.expires
Live(c, k, time) == HasKey(c, k) /\ c[IndexOf(c, k)].linked /\ time < c[IndexOf(c, k)].expires
ValueOf(c, k) == c[IndexOf(c, k)].value

\* Mutant: a lookup leaves the order alone (first in, first out).
TouchKeepsOrder(c, k) == c

\* TTLCache.__getlink: every lookup of a stored key moves it to the recent end
Touch(c, k) == IF HasKey(c, k) THEN Without(c, k) \o << c[IndexOf(c, k)] >> ELSE c

\* TTLCache.expire(time): drop the links of the expiry list with
\* not (time < expires); a link not yet in the list is not reached
Expire(c, time) == SelectSeq(c, LAMBDA e : ~e.linked \/ time < e.expires)

\* Cache.__setitem__ for a new key: popitem() while the cache is full
RECURSIVE Evict(_)
Evict(c) == IF Len(c) + 1 > maxsize THEN Evict(Tail(c)) ELSE c

\* Mutant: the ttl is left out.
ExpiresNow(time) == time

\* The time a link stored at `time` expires: link.expires = time + ttl
Expires(time) == time + ttl

\* TTLCache.__setitem__(key, value) at `time`, first half: expire(time),
\* Cache.__setitem__ (popitem while full, data[key] = value), and the link
\* found by __getlink or a new _Link(key), which has no expires yet
StoreData(c, k, v, time) ==
    LET live == Expire(c, time)
    IN  IF HasKey(live, k)
        THEN Without(live, k) \o << [live[IndexOf(live, k)] EXCEPT !.value = v] >>
        ELSE Evict(live) \o << [key |-> k, value |-> v, expires |-> 0, linked |-> FALSE] >>

\* link.unlink() on the link found raises AttributeError when its next and
\* prev are not set yet
UnlinkFails(c, k, time) == Unlinked(Expire(c, time), k)

\* Second half: link.expires = time + ttl, and the link joins the expiry list
StoreLink(c, k, time) ==
    [i \in 1..Len(c) |->
        IF c[i].key = k THEN [c[i] EXCEPT !.expires = Expires(time), !.linked = TRUE] ELSE c[i]]

\* TTLCache.__setitem__(key, value) at `time`, run through by one thread
Store(c, k, v, time) == StoreLink(StoreData(c, k, v, time), k, time)

\* --------------------------------------------------------------------- steps

At(t, where) == th[t].pc = where
Set(t, r) == th' = [th EXCEPT ![t] = r]
Shared == << CACHE, _js, _cipher, _signature_timestamp >>
Env == << now, ticks, serverTs >>
Conn == << _session, _api >>
Logs == << lastUrl, uses >>

\* An exception leaves the call.
Raised(t, name) == [th[t] EXCEPT !.pc = "done", !.exc = name]

Init ==
    /\ CACHE = <<>>
    /\ _js = ""
    /\ _cipher = "None"
    /\ serverTs = 1
    /\ _signature_timestamp = 1
    /\ _session = 1
    /\ _api = 1
    /\ now = 0
    /\ ticks = 0
    /\ calls = 0
    /\ lastPut = [v \in Videos |-> NoPut]
    /\ totals = [scripts |-> 0, builds |-> 0, setups |-> 0]
    /\ lastUrl = [k \in UrlKeys |-> NoUrlPut]
    /\ uses = <<>>
    /\ th = [t \in Threads |-> Idle]

\* A caller on thread t invokes stream_url(video_id, format_code).
CallStreamUrl(t) ==
    /\ At(t, "idle")
    /\ calls < MaxCalls
    /\ \E v \in Videos : \E c \in FormatCodes(v) :
         Set(t, [Idle EXCEPT !.pc = "su_lookup", !.op = "stream_url",
                             !.video_id = v, !.format_code = c, !.js0 = _js])
    /\ calls' = calls + 1
    /\ UNCHANGED << Shared, Env, Conn, Logs, lastPut, totals >>

\* A caller on thread t invokes song_info(video_id) (song_list_quality and others).
CallSongInfo(t) ==
    /\ At(t, "idle")
    /\ calls < MaxCalls
    /\ \E v \in Videos :
         Set(t, [Idle EXCEPT !.pc = "si_lookup", !.op = "song_info",
                             !.video_id = v, !.js0 = _js])
    /\ calls' = calls + 1
    /\ UNCHANGED << Shared, Env, Conn, Logs, lastPut, totals >>

\* cachetools.cached around stream_url: return cache[k], or fall through to the body.
StreamUrlLookup(t) ==
    LET k == stream_url_key(th[t].video_id, th[t].format_code)
        seen == [th[t] EXCEPT !.suAt = now,
                              !.suPrev = lastUrl[<<th[t].video_id, th[t].format_code>>]]
    IN  /\ At(t, "su_lookup")
        /\ CACHE' = Touch(CACHE, k)
        /\ IF Unlinked(CACHE, k)
           THEN Set(t, [seen EXCEPT !.pc = "done", !.exc = "TypeError"])
           ELSE IF Live(CACHE, k, now)
           THEN Set(t, [seen EXCEPT !.pc = "done", !.ret = ValueOf(CACHE, k), !.hit = TRUE])
           ELSE Set(t, [seen EXCEPT !.pc = "si_lookup"])
        /\ UNCHANGED << _js, _cipher, _signature_timestamp, Env, Conn, Logs, calls, lastPut, totals >>

\* Where the song_info wrapper returns to.
AfterSongInfo(t) == IF th[t].op = "song_info" THEN "done" ELSE "select"

\* cachetools.cached around song_info: return cache[k], or fall through to the body.
SongInfoLookup(t) ==
    LET k == song_info_key(th[t].video_id)
        seen == [th[t] EXCEPT !.siAt = now, !.siPrev = lastPut[th[t].video_id]]
    IN  /\ At(t, "si_lookup")
        /\ CACHE' = Touch(CACHE, k)
        /\ IF Unlinked(CACHE, k)
           THEN Set(t, [seen EXCEPT !.pc = "done", !.exc = "TypeError"])
           ELSE IF Live(CACHE, k, now)
           THEN Set(t, [seen EXCEPT !.pc = AfterSongInfo(t), !.info = ValueOf(CACHE, k),
                                    !.siDone = TRUE])
           ELSE Set(t, [seen EXCEPT !.pc = "si_fetch"])
        /\ UNCHANGED << _js, _cipher, _signature_timestamp, Env, Conn, Logs, calls, lastPut, totals >>

\* The body of song_info: get_song with the current signature timestamp.
SongInfoFetch(t) ==
    /\ At(t, "si_fetch")
    /\ \E ok \in BOOLEAN :
         IF ok
         THEN Set(t, [th[t] EXCEPT !.pc = "si_store",
                                   !.info = get_song(th[t].video_id, _signature_timestamp),
                                   !.get_songs = @ + 1,
                                   !.getTs = _signature_timestamp])
         ELSE Set(t, Raised(t, "ConnectionError"))
    /\ UNCHANGED << Shared, Env, Conn, Logs, calls, lastPut, totals >>

\* The song_info wrapper stores the result, cache[k] = v: the first half of
\* TTLCache.__setitem__, which no lock makes one step with the second.
SongInfoStore(t) ==
    LET k == song_info_key(th[t].video_id)
    IN  /\ At(t, "si_store")
        /\ CACHE' = StoreData(CACHE, k, th[t].info, now)
        /\ IF UnlinkFails(CACHE, k, now)
           THEN Set(t, Raised(t, "AttributeError"))
           ELSE Set(t, [th[t] EXCEPT !.pc = "si_link", !.at = now])
        /\ UNCHANGED << _js, _cipher, _signature_timestamp, Env, Conn, Logs, calls, lastPut, totals >>

\* The second half of that __setitem__; the wrapper then returns the value.
SongInfoLink(t) ==
    /\ At(t, "si_link")
    /\ CACHE' = StoreLink(CACHE, song_info_key(th[t].video_id), th[t].at)
    /\ lastPut' = [lastPut EXCEPT ![th[t].video_id] = [at |-> th[t].at, info |-> th[t].info]]
    /\ Set(t, [th[t] EXCEPT !.pc = AfterSongInfo(t), !.siDone = TRUE])
    /\ UNCHANGED << _js, _cipher, _signature_timestamp, Env, Conn, Logs, calls, totals >>

\* Mutant: <= for ==.
MatchesAtMost(f, format_code) == f.itag <= format_code

\* int(f.itag) == format_code
Matches(f, format_code) == f.itag = format_code

\* for f in formats: if int(f.itag) == format_code: return self._get_stream_url(f, video_id)
SelectFormat(t) ==
    LET formats == adaptiveFormats(th[t].info)
        found == { i \in 1..Len(formats) : Matches(formats[i], th[t].format_code) }
        first == CHOOSE i \in found : \A j \in found : i <= j
    IN  /\ At(t, "select")
        /\ IF found = {}
           THEN Set(t, [th[t] EXCEPT !.pc = "su_store", !.ret = None])
           ELSE Set(t, [th[t] EXCEPT !.pc = "gsu", !.f = formats[first], !.retry = TRUE])
        /\ UNCHANGED << Shared, Env, Conn, Logs, calls, lastPut, totals >>

\* Mutant: the emptiness test is inverted.
HasPlainUrlEmpty(f) == f.url # None /\ f.url[1] = <<>>

\* f.url is not None and f.url != ''
HasPlainUrl(f) == f.url # None /\ f.url[1] # <<>>

\* _get_stream_url up to the parsed blob: the plain URL is returned at once.
GetStreamUrl(t) ==
    LET r == [th[t] EXCEPT !.attempts = @ + 1]
    IN  /\ At(t, "gsu")
        /\ IF HasPlainUrl(th[t].f)
           THEN Set(t, [r EXCEPT !.pc = "su_store", !.ret = Some(th[t].f.url[1])])
           ELSE IF th[t].f.signatureCipher = None
           THEN Set(t, [r EXCEPT !.pc = "done", !.exc = "AttributeError"])
           ELSE Set(t, [r EXCEPT !.pc = "check_js",
                                 !.res = ParseCipher(th[t].f.signatureCipher[1])])
        /\ UNCHANGED << Shared, Env, Conn, Logs, calls, lastPut, totals >>

\* Mutant: the script is fetched on every pass.
NeedsCipherAlways(js) == TRUE

\* if self._js == "": self._get_cipher(video_id)
NeedsCipher(js) == js = ""

CheckJs(t) ==
    /\ At(t, "check_js")
    /\ Set(t, [th[t] EXCEPT !.pc = IF NeedsCipher(_js) THEN "gc_embed" ELSE "sign"])
    /\ UNCHANGED << Shared, Env, Conn, Logs, calls, lastPut, totals >>

\* _get_cipher: the embed page of the track and the script URL it names.
FetchEmbed(t) ==
    /\ At(t, "gc_embed")
    /\ \E ok \in BOOLEAN :
         IF ok
         THEN Set(t, [th[t] EXCEPT !.pc = "gc_js", !.js_url = js_url_of(th[t].video_id),
                                   !.embeds = @ + 1])
         ELSE Set(t, Raised(t, "ConnectionError"))
    /\ UNCHANGED << Shared, Env, Conn, Logs, calls, lastPut, totals >>

\* self._js = self._session.get(js_url).text
FetchJs(t) ==
    /\ At(t, "gc_js")
    /\ \E ok \in BOOLEAN : \E text \in ScriptsAt(th[t].js_url) :
         IF ok
         THEN /\ _js' = text
              /\ totals' = [totals EXCEPT !.scripts = @ + 1]
              /\ Set(t, [th[t] EXCEPT !.pc = "gc_build", !.scripts = @ + 1])
         ELSE /\ Set(t, Raised(t, "ConnectionError"))
              /\ UNCHANGED << _js, totals >>
    /\ UNCHANGED << CACHE, _cipher, _signature_timestamp, Env, Conn, Logs, calls, lastPut >>

\* Cipher(js=self._js): the script is read and the plan extracted, or RegexMatchError.
BuildCipher(t) ==
    /\ At(t, "gc_build")
    /\ totals' = [totals EXCEPT !.builds = @ + 1]
    /\ IF Buildable(_js)
       THEN Set(t, [th[t] EXCEPT !.pc = "gc_assign", !.js = _js, !.builds = @ + 1])
       ELSE Set(t, [th[t] EXCEPT !.pc = "done", !.exc = "RegexMatchError", !.builds = @ + 1])
    /\ UNCHANGED << Shared, Env, Conn, Logs, calls, lastPut >>

\* self._cipher = <the Cipher just built>
AssignCipher(t) ==
    /\ At(t, "gc_assign")
    /\ _cipher' = th[t].js
    /\ Set(t, [th[t] EXCEPT !.pc = "sign"])
    /\ UNCHANGED << CACHE, _js, _signature_timestamp, Env, Conn, Logs, calls, lastPut, totals >>

\* signature = self._cipher.get_signature(ciphered_signature=res['s'])
\* _url = res['url'] + "&sig=" + signature; without retry the URL is returned.
Sign(t) ==
    LET sg == get_signature(_cipher, th[t].res.s)
        _url == th[t].res.url \o <<"&", "s", "i", "g", "=">> \o sg.val
        r == [th[t] EXCEPT !.decodes = @ + 1, !.urls = Append(@, _url)]
    IN  /\ At(t, "sign")
        /\ IF _cipher = "None"
           THEN Set(t, Raised(t, "AttributeError"))
           ELSE IF ~sg.ok
           THEN Set(t, [Raised(t, "ZeroDivisionError") EXCEPT !.decodes = @ + 1])
           ELSE IF th[t].retry
           THEN Set(t, [r EXCEPT !.pc = "probe"])
           ELSE Set(t, [r EXCEPT !.pc = "su_store", !.ret = Some(_url)])
        /\ UNCHANGED << Shared, Env, Conn, Logs, calls, lastPut, totals >>

\* Mutant: after any other answer the call returns without a second pass.
AfterProbeReturns(status) == IF status = 403 THEN "refresh" ELSE "su_store"

\* Mutant: every answer of the probe leads to a refresh.
AfterProbeAlwaysRefresh(status) == "refresh"

\* Mutant: the 403 answer is ignored.
AfterProbeNoRefresh(status) == "gsu"

\* if r.status_code == 403: refresh the timestamp first
AfterProbe(status) == IF status = 403 THEN "refresh" ELSE "gsu"

\* Mutant: the second pass is entered with retry still set.
RetryAgainTrue == TRUE

\* return self._get_stream_url(f, video_id, retry=False)
RetryAgain == FALSE

\* r = self._session.head(_url)
Probe(t) ==
    /\ At(t, "probe")
    /\ \E ok \in BOOLEAN : \E status \in Statuses :
         IF ok
         THEN Set(t, [th[t] EXCEPT !.pc = AfterProbe(status), !.probes = @ + 1,
                                   !.getsAtProbe = th[t].get_songs,
                                   !.status = status, !.retry = RetryAgain])
         ELSE Set(t, Raised(t, "ConnectionError"))
    /\ UNCHANGED << Shared, Env, Conn, Logs, calls, lastPut, totals >>

\* Mutant: the request is not made and the stored timestamp is kept.
FetchedTimestampStale == _signature_timestamp

\* What self._api.get_signatureTimestamp() answers.
FetchedTimestamp == serverTs

\* self._signature_timestamp = self._api.get_signatureTimestamp(), then the second pass
Refresh(t) ==
    /\ At(t, "refresh")
    /\ \E ok \in BOOLEAN :
         IF ok
         THEN /\ _signature_timestamp' = FetchedTimestamp
              /\ Set(t, [th[t] EXCEPT !.pc = "gsu", !.refreshes = @ + 1, !.newTs = FetchedTimestamp])
         ELSE /\ Set(t, Raised(t, "ConnectionError"))
              /\ UNCHANGED _signature_timestamp
    /\ UNCHANGED << CACHE, _js, _cipher, Env, Conn, Logs, calls, lastPut, totals >>

\* The stream_url wrapper stores the result, cache[k] = v: first half.
StreamUrlStore(t) ==
    LET k == stream_url_key(th[t].video_id, th[t].format_code)
    IN  /\ At(t, "su_store")
        /\ CACHE' = StoreData(CACHE, k, th[t].ret, now)
        /\ IF UnlinkFails(CACHE, k, now)
           THEN Set(t, Raised(t, "AttributeError"))
           ELSE Set(t, [th[t] EXCEPT !.pc = "su_link", !.at = now])
        /\ UNCHANGED << _js, _cipher, _signature_timestamp, Env, Conn, Logs, calls, lastPut, totals >>

\* The second half; the wrapper then returns the value.
StreamUrlLink(t) ==
    /\ At(t, "su_link")
    /\ CACHE' = StoreLink(CACHE, stream_url_key(th[t].video_id, th[t].format_code), th[t].at)
    /\ lastUrl' = [lastUrl EXCEPT ![<<th[t].video_id, th[t].format_code>>] =
                      [at |-> th[t].at, value |-> th[t].ret, ts |-> _signature_timestamp,
                       session |-> _session]]
    /\ Set(t, [th[t] EXCEPT !.pc = "done"])
    /\ UNCHANGED << _js, _cipher, _signature_timestamp, Env, Conn, uses, calls, lastPut, totals >>

\* A service call started by video_get_media, with what video_get_media holds.
Inner(t, op, pc, format_code) ==
    [Idle EXCEPT !.pc = pc, !.op = op, !.video_id = th[t].video_id,
                 !.format_code = format_code, !.js0 = _js,
                 !.vgm = th[t].vgm, !.codes = th[t].codes, !.url = th[t].url,
                 !.audio_url = th[t].audio_url, !.resolved = th[t].resolved]

\* The provider's video_get_media(video, quality) on thread t begins with
\* song_info = self.service.song_info(video.identifier).
CallVideoGetMedia(t) ==
    /\ At(t, "idle")
    /\ calls < MaxCalls
    /\ \E v \in Videos :
         Set(t, [Idle EXCEPT !.pc = "si_lookup", !.op = "song_info", !.video_id = v,
                             !.js0 = _js, !.vgm = "info"])
    /\ calls' = calls + 1
    /\ UNCHANGED << Shared, Env, Conn, Logs, lastPut, totals >>

\* format_code = song_info.get_mv(quality); audio_formats = song_info.list_formats();
\* audio_code, _, __ = song_info.get_media(audio_formats[0]): any codes, or
\* IndexError on an empty list; then url = self.service.stream_url(id, format_code).
VideoCodes(t) ==
    /\ At(t, "done") /\ th[t].vgm = "info"
    /\ IF th[t].exc # ""
       THEN Set(t, [th[t] EXCEPT !.vgm = "raised"])
       ELSE \E listed \in BOOLEAN :
              \E format_code \in FormatCodes(th[t].video_id) :
                \E audio_code \in FormatCodes(th[t].video_id) :
                  IF listed
                  THEN Set(t, [Inner(t, "stream_url", "su_lookup", format_code)
                                 EXCEPT !.vgm = "video", !.codes = << format_code, audio_code >>])
                  ELSE Set(t, [th[t] EXCEPT !.vgm = "raised", !.exc = "IndexError"])
    /\ UNCHANGED << Shared, Env, Conn, Logs, calls, lastPut, totals >>

\* audio_url = self.service.stream_url(video.identifier, audio_code)
VideoAudio(t) ==
    /\ At(t, "done") /\ th[t].vgm = "video"
    /\ IF th[t].exc # ""
       THEN Set(t, [th[t] EXCEPT !.vgm = "raised"])
       ELSE Set(t, [Inner(t, "stream_url", "su_lookup", th[t].codes[2])
                      EXCEPT !.vgm = "audio", !.url = th[t].ret, !.resolved = 1])
    /\ UNCHANGED << Shared, Env, Conn, Logs, calls, lastPut, totals >>

\* Mutant: only the video URL is looked at.
NoMediaVideoOnly(url, audio_url) == url = None

\* if url is None or audio_url is None: return None
NoMedia(url, audio_url) == url = None \/ audio_url = None

\* return Media(VideoAudioManifest(url, audio_url)), or None
VideoDecide(t) ==
    /\ At(t, "done") /\ th[t].vgm = "audio"
    /\ IF th[t].exc # ""
       THEN Set(t, [th[t] EXCEPT !.vgm = "raised"])
       ELSE Set(t, [th[t] EXCEPT !.vgm = "decided", !.audio_url = th[t].ret, !.resolved = 2,
                                 !.media = IF NoMedia(th[t].url, th[t].ret) THEN None
                                           ELSE Some(<< th[t].url, th[t].ret >>)])
    /\ UNCHANGED << Shared, Env, Conn, Logs, calls, lastPut, totals >>

\* The call has returned or raised; the thread is free again.
Return(t) ==
    /\ At(t, "done")
    /\ th[t].vgm \in {"no", "decided", "raised"}
    /\ Set(t, Idle)
    /\ UNCHANGED << Shared, Env, Conn, Logs, calls, lastPut, totals >>

\* setup(), called again when the provider's user is set: a new session, a
\* new client, and the signature timestamp asked for again.  Between calls
\* made one after another it runs while no call is in progress.
Setup ==
    /\ \A t \in Threads : At(t, "idle")
    /\ _session <= MaxSetups
    /\ _session' = _session + 1
    /\ _api' = _api + 1
    /\ \E ok \in BOOLEAN :
         IF ok
         THEN /\ _signature_timestamp' = FetchedTimestamp
              /\ totals' = [totals EXCEPT !.setups = @ + 1]
         ELSE UNCHANGED << _signature_timestamp, totals >>
    /\ UNCHANGED << CACHE, _js, _cipher, Env, Logs, calls, lastPut, th >>

\* Time passes between calls; a call itself lasts seconds, far inside the ttl.
Tick ==
    /\ \A t \in Threads : At(t, "idle")
    /\ ticks < MaxTicks
    /\ ticks' = ticks + 1
    /\ now' = now + TickStep
    /\ UNCHANGED << Shared, Conn, Logs, serverTs, calls, lastPut, totals, th >>

\* The server rotates its signature timestamp.
Rotate ==
    /\ serverTs < MaxTs
    /\ serverTs' = serverTs + 1
    /\ UNCHANGED << Shared, Conn, Logs, now, ticks, calls, lastPut, totals, th >>

\* The steps of a call in progress.
Body(t) ==
    \/ StreamUrlLookup(t)
    \/ SongInfoLookup(t)
    \/ SongInfoFetch(t)
    \/ SongInfoStore(t)
    \/ SongInfoLink(t)
    \/ SelectFormat(t)
    \/ GetStreamUrl(t)
    \/ CheckJs(t)
    \/ FetchEmbed(t)
    \/ FetchJs(t)
    \/ BuildCipher(t)
    \/ AssignCipher(t)
    \/ Sign(t)
    \/ Probe(t)
    \/ Refresh(t)
    \/ StreamUrlStore(t)
    \/ StreamUrlLink(t)

Step(t) == CallStreamUrl(t) \/ CallSongInfo(t) \/ Body(t)

\* The tracks of the long playlist asked for so far.
Played == { uses[j].key[2] : j \in 1..Len(uses) }
PlayingThrough == Cardinality(Played) \in 2..(Prefill - 1)

\* song_info(ToString(i)) run from the lookup to the store by a single
\* thread: a hit returns the stored value, a miss stores what get_song answers.
SongInfoOnce(i) ==
    LET video_id == ToString(i)
        k == song_info_key(video_id)
        get == [key |-> k, at |-> now, op |-> "get"]
        put == [key |-> k, at |-> now, op |-> "put"]
    IN  /\ \/ i = Cardinality(Played) + 1
           \/ i = 1 /\ ~PlayingThrough /\ calls - Cardinality(Played) < MaxRepeats
        /\ calls' = calls + 1
        /\ IF Live(CACHE, k, now)
           THEN /\ CACHE' = Touch(CACHE, k)
                /\ uses' = Append(uses, get)
           ELSE /\ CACHE' = Store(Touch(CACHE, k), k, get_song(video_id, _signature_timestamp), now)
                /\ uses' = uses \o << get, put >>
        /\ UNCHANGED << _js, _cipher, _signature_timestamp, Conn, Env, lastPut, totals, lastUrl, th >>

\* The listener pauses: time passes between two calls.
Pause == ~PlayingThrough /\ Tick

\* Overlapping calls: every thread of the host makes one call, the calls
\* interleaved at every access to shared state.  The calls overlap within
\* seconds, far inside the ttl, so the clock stands still here.
Next == (\E t \in Threads : Step(t)) \/ Rotate

Spec == Init /\ [][Next]_vars

\* Calls made one after another from a single thread, while time passes.
SeqNext == Step("t1") \/ Return("t1") \/ Tick \/ Rotate

SeqSpec == Init /\ [][SeqNext]_vars

\* Calls made one after another from a single thread, with setup() called
\* again between them (the user logs in); the session lasts minutes, inside
\* the ttl, so the clock stands still here.
LoginNext == Step("t1") \/ Return("t1") \/ Setup \/ Rotate

LoginSpec == Init /\ [][LoginNext]_vars

\* The provider's video_get_media called from a single thread, one call
\* after another.
MediaNext ==
    \/ CallVideoGetMedia("t1") \/ Body("t1")
    \/ VideoCodes("t1") \/ VideoAudio("t1") \/ VideoDecide("t1")
    \/ Return("t1") \/ Rotate

MediaSpec == Init /\ [][MediaNext]_vars

\* A long playlist played by a single thread, each call run to completion.
CacheNext == (\E i \in 1..MaxTracks : SongInfoOnce(i)) \/ Pause

CacheSpec == Init /\ [][CacheNext]_vars

\* -------------------------------------------------------------------- claims

\* A stream_url call on thread t has returned normally.
Returned(t) == th[t].pc = "done" /\ th[t].op = "stream_url" /\ th[t].exc = ""

\* The call's probe was answered 403 and the call went on to return.
Forbidden(t) == Returned(t) /\ th[t].probes = 1 /\ th[t].status = 403

\* C1: after a 403 probe the call fetches the track metadata again with the
\* refreshed timestamp, and the URL it returns is built from that metadata.
C1_RetryRefetchesMetadata ==
    \A t \in Threads :
        Forbidden(t) =>
            /\ th[t].get_songs > th[t].getsAtProbe
            /\ th[t].getTs = th[t].newTs
            /\ th[t].info.ts = th[t].newTs

\* C2: a call whose probe is answered 403 refreshes the signature timestamp
\* exactly once and returns the URL its second pass built.
C2_OneRefreshSecondUrl ==
    \A t \in Threads :
        Forbidden(t) =>
            /\ th[t].refreshes = 1
            /\ Len(th[t].urls) = 2
            /\ th[t].ret = Some(th[t].urls[2])

C2_Witness ==
    \E t \in Threads :
        /\ Forbidden(t)
        /\ th[t].refreshes = 1
        /\ th[t].ret = Some(th[t].urls[2])

\* Steps a call at this position can still take at most: the positions of a
\* pass count down, and the first pass (retry set) lies a whole pass above
\* the second.
PcRank(pc) ==
    CASE pc = "su_lookup" -> 27
      [] pc = "si_lookup" -> 26
      [] pc = "si_fetch"  -> 25
      [] pc = "si_store"  -> 24
      [] pc = "si_link"   -> 23
      [] pc = "select"    -> 22
      [] pc = "refresh"   -> 11
      [] pc = "gsu"       -> 10
      [] pc = "check_js"  -> 9
      [] pc = "gc_embed"  -> 8
      [] pc = "gc_js"     -> 7
      [] pc = "gc_build"  -> 6
      [] pc = "gc_assign" -> 5
      [] pc = "sign"      -> 4
      [] pc = "probe"     -> 3
      [] pc = "su_store"  -> 2
      [] pc = "su_link"   -> 1
      [] OTHER            -> 0

Rank(r) == PcRank(r.pc) + (IF r.retry THEN 10 ELSE 0)

InCall(t) == th[t].pc \notin {"idle", "done"}

\* A call never makes more than two passes of _get_stream_url nor more than
\* one probe, and with a 403 answer it returns after exactly two passes with
\* the URL of the second.
C3_Bounded ==
    \A t \in Threads :
        /\ th[t].attempts <= 2
        /\ th[t].probes <= 1
        /\ Forbidden(t) =>
              /\ th[t].attempts = 2
              /\ th[t].decodes = 2
              /\ th[t].ret = Some(th[t].urls[th[t].attempts])

\* Every step of a call lowers its rank, so no call takes more steps than
\* the rank it starts with.
C3_Progress ==
    \A t \in Threads : (InCall(t) /\ th'[t] # th[t]) => Rank(th'[t]) < Rank(th[t])

\* C3: a call whose probe is answered 403 ends after exactly two passes of
\* _get_stream_url (one retry) and returns the second pass's URL; no call
\* retries more than once or runs on indefinitely.
C3_TwoAttemptsThenReturn == []C3_Bounded /\ [][C3_Progress]_vars

C3_Witness ==
    \E t \in Threads : Forbidden(t) /\ th[t].attempts = 2 /\ th[t].hit = FALSE

\* C4: when the selected format carries a non-empty plain URL, the
\* resolution returns exactly that URL and the call fetches no embed page or
\* script, builds no cipher, decodes nothing, probes nothing and refreshes
\* nothing.  (The only exception such a call can end with comes from the
\* cache store that follows, when another thread is storing the same key.)
C4_PlainUrlUntouched ==
    \A t \in Threads :
        ( /\ th[t].pc \in {"su_store", "su_link", "done"}
          /\ th[t].attempts >= 1
          /\ th[t].f.url \notin {None, Some(<<>>)} ) =>
            /\ th[t].ret = th[t].f.url
            /\ th[t].attempts = 1
            /\ th[t].embeds = 0 /\ th[t].scripts = 0 /\ th[t].builds = 0
            /\ th[t].decodes = 0 /\ th[t].probes = 0 /\ th[t].refreshes = 0

C4_Witness ==
    \E t \in Threads :
        /\ Returned(t)
        /\ th[t].attempts = 1
        /\ th[t].f.url = Some(<<"p">>)
        /\ th[t].ret = Some(<<"p">>)

\* No track metadata offers the format code, whatever timestamp it was fetched with.
Unoffered(video_id, format_code) ==
    \A ts \in 1..MaxTs : \A i \in 1..Len(Formats(video_id, ts)) :
        Formats(video_id, ts)[i].itag # format_code

\* C5: when no format of the track has the requested code, stream_url
\* returns None and the call enters no pass of _get_stream_url: no probe, no
\* embed or script fetch, no timestamp refresh.
C5_AbsentFormatNone ==
    \A t \in Threads :
        ( /\ th[t].op = "stream_url"
          /\ th[t].pc \in {"su_store", "su_link", "done"}
          /\ th[t].exc = ""
          /\ Unoffered(th[t].video_id, th[t].format_code) ) =>
            /\ th[t].ret = None
            /\ th[t].attempts = 0
            /\ th[t].probes = 0 /\ th[t].embeds = 0 /\ th[t].scripts = 0
            /\ th[t].refreshes = 0

C5_Witness ==
    \E t \in Threads :
        /\ Returned(t)
        /\ th[t].format_code = 999
        /\ th[t].siDone
        /\ th[t].ret = None

\* The selected format lacks a field the resolution needs: it has no plain
\* URL and either no signatureCipher, or a blob without the s or url field.
Incomplete(f) ==
    /\ f # NoFormat
    /\ f.url \in {None, Some(<<>>)}
    /\ \/ f.signatureCipher = None
       \/ ParseCipher(f.signatureCipher[1]).s = <<>>
       \/ ParseCipher(f.signatureCipher[1]).url = <<>>

\* C6: on incomplete data stream_url returns None; it never raises anything
\* but the cipher-program error (RegexMatchError) or a transport error.
C6_IncompleteGivesNone ==
    \A t \in Threads :
        (th[t].pc = "done" /\ th[t].op = "stream_url" /\ Incomplete(th[t].f)) =>
            \/ th[t].exc = "" /\ th[t].ret = None
            \/ th[t].exc \in {"RegexMatchError", "ConnectionError"}

\* C7: a pass that finds the script present and skips _get_cipher finds the
\* cipher built from exactly that script when it decodes.
C7_NoHalfUpdatedPair ==
    \A t \in Threads :
        (th[t].pc = "sign" /\ th[t].embeds = 0) => (_cipher # "None" /\ _cipher = _js)

\* C8: while a script whose transform plan cannot be extracted is in use,
\* every stream_url call for a ciphered format ends with RegexMatchError.
C8_AlwaysCipherProgramNotFound ==
    \A t \in Threads :
        ( /\ th[t].pc = "done" /\ th[t].op = "stream_url"
          /\ th[t].attempts >= 1
          /\ th[t].f.url \in {None, Some(<<>>)}
          /\ th[t].f.signatureCipher # None
          /\ _js # "" /\ ~Buildable(_js) ) =>
            th[t].exc = "RegexMatchError"

\* C9: a song_info call that looks its key up less than ttl seconds after
\* the last store for that key makes no get_song request and returns the
\* stored value; one that finds no store, or one at least ttl seconds old,
\* makes exactly one get_song request.
C9_OneFetchPerTtlWindow ==
    \A t \in Threads :
        th[t].siDone =>
            LET p == th[t].siPrev
                within == p.at >= 0 /\ th[t].siAt < p.at + ttl
            IN  /\ within => (th[t].get_songs = 0 /\ th[t].info = p.info)
                /\ ~within => th[t].get_songs = 1

C9_Witness ==
    \E t \in Threads :
        /\ th[t].siDone
        /\ th[t].siPrev.at >= 0
        /\ th[t].siAt >= th[t].siPrev.at + ttl
        /\ th[t].get_songs = 1

\* C10: over calls made one after another, a script text is stored at most
\* once and a cipher is built at most once; a call that starts with the
\* script present fetches no embed page and no script, builds nothing, and
\* decodes with the cipher already cached.
C10_ScriptFetchedOnce ==
    /\ totals.scripts <= 1
    /\ totals.builds <= 1
    /\ \A t \in Threads :
         th[t].js0 # "" =>
            /\ th[t].embeds = 0 /\ th[t].scripts = 0 /\ th[t].builds = 0
            /\ _js = th[t].js0
            /\ th[t].decodes >= 1 => _cipher = th[t].js0

C10_Witness ==
    \E t \in Threads :
        /\ Returned(t)
        /\ th[t].js0 # ""
        /\ th[t].decodes >= 1
        /\ totals.scripts = 1

\* C11: a signature is decoded with a cipher built from a script served at
\* the script URL the track's own embed page names, never with one cached
\* for another URL.
C11_DecodedWithOwnScript ==
    \A t \in Threads :
        (th[t].decodes >= 1 /\ th[t].exc = "" /\ th[t].pc \in {"probe", "su_store", "su_link", "done"}) =>
            _cipher \in ScriptsAt(js_url_of(th[t].video_id))

\* A blob read as '&'-joined key=value pairs: the key of a pair is the text
\* before its first '=', the value the text after it.
RECURSIVE EqualsAt(_, _)
EqualsAt(pair, i) ==
    IF i > Len(pair) THEN 0 ELSE IF pair[i] = "=" THEN i ELSE EqualsAt(pair, i + 1)

PairKey(pair) == IF EqualsAt(pair, 1) = 0 THEN pair ELSE SubSeq(pair, 1, EqualsAt(pair, 1) - 1)
PairValue(pair) == IF EqualsAt(pair, 1) = 0 THEN <<>> ELSE DropPrefix(pair, EqualsAt(pair, 1))

\* The percent-decoded value of the field `key` of the blob, "" without one.
Field(blob, key) ==
    LET pairs == split(blob, "&")
        at == { i \in 1..Len(pairs) : PairKey(pairs[i]) = key }
    IN  IF at = {} THEN <<>> ELSE unquote(PairValue(pairs[CHOOSE i \in at : \A j \in at : j <= i]))

\* C12: the signature and the URL fragment taken from a ciphered blob are
\* the percent-decoded values of its s and url fields, whatever other
\* fields the blob carries and in whatever order, and the URL built is
\* url + "&sig=" + the decoded signature.
C12_OnlySAndUrlConsumed ==
    \A t \in Threads :
        (th[t].pc \in {"check_js", "sign", "probe"} /\ th[t].f.signatureCipher # None) =>
            LET blob == th[t].f.signatureCipher[1]
            IN  /\ th[t].res.s = Field(blob, <<"s">>)
                /\ th[t].res.url = Field(blob, <<"u", "r", "l">>)
                /\ \A i \in 1..Len(th[t].urls) :
                     th[t].urls[i] = Field(blob, <<"u", "r", "l">>) \o <<"&", "s", "i", "g", "=">>
                                       \o get_signature(_cipher, Field(blob, <<"s">>)).val

\* No call asks for the timestamp unless its probe was answered 403: not one
\* that returned a plain URL or found no format (no probe, status 0), nor
\* one whose probe was answered otherwise.
C13_NoRequest ==
    \A t \in Threads : th[t].status # 403 => th[t].refreshes = 0

\* A step that changes the signature timestamp is setup(), or the refresh
\* of a call whose probe was answered 403; and only such a call makes a
\* timestamp request.
C13_Step ==
    /\ _signature_timestamp' # _signature_timestamp =>
          \/ _session' # _session
          \/ \E t \in Threads :
                /\ th[t].pc = "refresh" /\ th[t].probes = 1 /\ th[t].status = 403
                /\ th'[t].refreshes = th[t].refreshes + 1
    /\ \A t \in Threads :
          th'[t].refreshes > th[t].refreshes => (th[t].probes = 1 /\ th[t].status = 403)

\* C13: the signature timestamp is written only by setup() and by a call
\* whose probe was answered 403; every other call leaves it unchanged and
\* makes no timestamp request.
C13_TimestampWrittenOnlyOn403 == []C13_NoRequest /\ [][C13_Step]_vars

C13_Witness ==
    \E t \in Threads :
        /\ Returned(t)
        /\ th[t].probes = 1 /\ th[t].status = 404
        /\ th[t].refreshes = 0
        /\ _signature_timestamp # serverTs
        /\ totals.setups = 1

\* The keys stored in a cache, and those of them not yet expired.
Keys(c) == { c[i].key : i \in 1..Len(c) }
LiveKeys(c, time) == { c[i].key : i \in { j \in 1..Len(c) : time < c[j].expires } }

\* The position in the access log of the last lookup or store of key k.
LastUse(k) ==
    LET at == { j \in 1..Len(uses) : uses[j].key = k }
    IN  IF at = {} THEN 0 ELSE CHOOSE j \in at : \A i \in at : i <= j

\* The time key k was last stored, -1 if never.
LastPutAt(k) ==
    LET at == { j \in 1..Len(uses) : uses[j].key = k /\ uses[j].op = "put" }
    IN  IF at = {} THEN -1 ELSE uses[CHOOSE j \in at : \A i \in at : i <= j].at

C14_Capacity == Len(CACHE) <= maxsize

\* A step that removes an entry which had not expired removes exactly one,
\* from a cache that held maxsize live entries, and the one removed is the
\* least recently used of them.
C14_Step ==
    LET live == LiveKeys(CACHE, now)
        evicted == live \ Keys(CACHE')
    IN  evicted # {} =>
          /\ Cardinality(live) = maxsize
          /\ Cardinality(evicted) = 1
          /\ \A e \in evicted : \A k \in live : LastUse(e) <= LastUse(k)

\* C14: the cache never holds more than maxsize entries, and an insertion
\* into a full cache evicts the least recently used entry, whatever time
\* to live it has left.
C14_AtMostMaxsizeEvictLru == []C14_Capacity /\ [][C14_Step]_vars

\* The cache is full, an entry was evicted before its expiry, and an entry
\* with less time to live than the evicted one had is still cached.
C14_Witness ==
    /\ Len(CACHE) = maxsize
    /\ \E k \in { uses[j].key : j \in 1..Len(uses) } :
         /\ k \notin Keys(CACHE)
         /\ now < LastPutAt(k) + ttl
         /\ \E i \in 1..Len(CACHE) :
              now < CACHE[i].expires /\ CACHE[i].expires < LastPutAt(k) + ttl

\* C15: overlapping song_info calls for one track each end with the
\* metadata a completed get_song request produced for that track (or with
\* that request's transport error), and once no store is in progress the
\* cache holds one complete entry per key.
C15_EveryCallerGetsAValue ==
    /\ \A t \in Threads :
         (th[t].op = "song_info" /\ th[t].pc = "done") =>
            \/ th[t].exc = "ConnectionError"
            \/ th[t].exc = "" /\ \E ts \in 1..MaxTs : th[t].info = get_song(th[t].video_id, ts)
    /\ \A i \in 1..Len(CACHE) : \A j \in 1..Len(CACHE) : CACHE[i].key = CACHE[j].key => i = j
    /\ (\A t \in Threads : th[t].pc \notin {"si_link", "su_link"}) =>
         \A i \in 1..Len(CACHE) : CACHE[i].linked

\* C16: a stream_url call that looks its key up less than ttl seconds after
\* the last store for the same video_id and format_code is answered with
\* the stored value, None included, and fetches no metadata, enters no
\* pass, probes nothing and refreshes nothing, whatever the signature
\* timestamp has become since; a call with no such store is not answered
\* from the cache.
C16_StreamUrlMemoised ==
    \A t \in Threads :
        (th[t].op = "stream_url" /\ th[t].pc = "done") =>
            LET p == th[t].suPrev
                within == p.at >= 0 /\ th[t].suAt < p.at + ttl
            IN  /\ within =>
                      /\ th[t].hit /\ th[t].exc = ""
                      /\ th[t].ret = p.value
                      /\ th[t].get_songs = 0 /\ th[t].attempts = 0
                      /\ th[t].probes = 0 /\ th[t].refreshes = 0
                /\ ~within => ~th[t].hit

\* A URL stored before setup() changed the timestamp is returned again.
C16_Witness ==
    \E t \in Threads :
        /\ Returned(t)
        /\ th[t].hit
        /\ th[t].ret # None
        /\ th[t].ret = th[t].suPrev.value
        /\ th[t].suPrev.ts # _signature_timestamp

\* C17: a call made by a single thread probes at most once and only in its
\* first pass; whatever the probe answers, a second pass runs, and the URL
\* it builds and returns is the URL that was probed.
C17_ProbedUrlReturned ==
    \A t \in Threads :
        /\ th[t].probes <= 1
        /\ th[t].pc = "probe" => (th[t].attempts = 1 /\ th[t].probes = 0)
        /\ (Returned(t) /\ th[t].probes = 1) =>
              /\ th[t].attempts = 2
              /\ Len(th[t].urls) = 2
              /\ th[t].urls[2] = th[t].urls[1]
              /\ th[t].ret = Some(th[t].urls[1])

\* The probe was answered 403 and the timestamp changed, and still the
\* probed URL is the one returned.
C17_Witness ==
    \E t \in Threads :
        /\ Returned(t)
        /\ th[t].probes = 1 /\ th[t].status = 403
        /\ th[t].refreshes = 1 /\ th[t].newTs # th[t].info.ts
        /\ th[t].ret = Some(th[t].urls[1])

\* A step that replaces the session or the client is setup(): it replaces
\* both, leaves the cache, the script and the cipher as they were, and when
\* it completes the timestamp is the one the server answers.
C18_Step ==
    (_session' # _session \/ _api' # _api) =>
        /\ _session' = _session + 1 /\ _api' = _api + 1
        /\ CACHE' = CACHE /\ _js' = _js /\ _cipher' = _cipher
        /\ totals'.setups > totals.setups => _signature_timestamp' = serverTs

\* A stream_url result stored under an earlier session and not yet expired
\* is what a call under the present session returns.
C18_StillReturned ==
    \A t \in Threads :
        ( /\ th[t].op = "stream_url" /\ th[t].pc = "done"
          /\ th[t].suPrev.at >= 0 /\ th[t].suAt < th[t].suPrev.at + ttl
          /\ th[t].suPrev.session < _session ) =>
            (th[t].hit /\ th[t].ret = th[t].suPrev.value)

\* C18: setup() replaces the session and the client and asks for the
\* timestamp again, and changes neither the cache nor the script and
\* cipher; what was cached before it is still returned after it.
C18_SetupKeepsCaches == []C18_StillReturned /\ [][C18_Step]_vars

C18_Witness ==
    \E t \in Threads :
        /\ Returned(t)
        /\ th[t].hit
        /\ th[t].suPrev.session < _session
        /\ totals.setups >= 1
        /\ _js # ""

\* What video_get_media returns agrees with the two URLs it holds.
C19_Result ==
    \A t \in Threads :
        /\ th[t].vgm = "decided" =>
              /\ th[t].resolved = 2
              /\ (th[t].url # None /\ th[t].audio_url # None) =>
                    th[t].media = Some(<< th[t].url, th[t].audio_url >>)
              /\ (th[t].url = None \/ th[t].audio_url = None) => th[t].media = None
        /\ th[t].vgm # "decided" => th[t].media = None

\* The audio URL is asked for after stream_url has returned for the video
\* code, whatever it returned, and the decision is taken after stream_url
\* has returned for the audio code.
C19_Step ==
    \A t \in Threads :
        /\ (th'[t].vgm = "audio" /\ th[t].vgm # "audio") =>
              /\ th[t].vgm = "video" /\ th[t].op = "stream_url" /\ th[t].pc = "done"
              /\ th[t].exc = "" /\ th[t].format_code = th[t].codes[1]
              /\ th'[t].url = th[t].ret
        /\ (th'[t].vgm = "decided" /\ th[t].vgm # "decided") =>
              /\ th[t].vgm = "audio" /\ th[t].op = "stream_url" /\ th[t].pc = "done"
              /\ th[t].exc = "" /\ th[t].format_code = th[t].codes[2]
              /\ th'[t].audio_url = th[t].ret /\ th'[t].url = th[t].url

\* C19: video_get_media decides only after both stream_url calls have
\* returned; it returns the manifest of the two URLs when both are not
\* None, and None when either is None.
C19_ManifestNeedsBothUrls == []C19_Result /\ [][C19_Step]_vars

\* The video URL resolved, the audio URL is None, and no manifest is returned.
C19_Witness ==
    \E t \in Threads :
        /\ th[t].vgm = "decided"
        /\ th[t].url # None
        /\ th[t].audio_url = None
        /\ th[t].resolved = 2
        /\ th[t].media = None

====
